---------------------------- MODULE Spec2Model ----------------------------
(***************************************************************************)
(* A model of the CRM tool catalog of src/lib/register-crm-tools.js: the   *)
(* field sanitizer (sanitizeUpdates), the error classifier                 *)
(* (friendlySupabaseError), the owner resolver (getCompanyIdFrom), the     *)
(* adaptive note inserter (smartInsertNote) and the note and update tools  *)
(* built on them.                                                          *)
(*                                                                         *)
(* A text (a store error message, the message of a thrown Error) is a      *)
(* sequence of fragments; a regular expression of the source is matched    *)
(* against the fragments in order.  An object is a function from its keys  *)
(* to its values.  One tool invocation runs at a time; every await of a    *)
(* storage call is one step, whose response the store chooses.             *)
(***************************************************************************)
EXTENDS Naturals, Sequences, FiniteSets, TLC

VARIABLES
    pc,             \* position of the running invocation
    table,          \* table of the pending (or last) storage call
    initialPayload, \* smartInsertNote's parameter
    payload,        \* smartInsertNote's local payload; the patch of an update tool
    attempt,        \* smartInsertNote's loop counter
    inserts,        \* insert calls issued by the running invocation
    calls,          \* storage calls of any kind issued by the running invocation
    last,           \* the most recent storage response, with its operation and table
    result,         \* what the invocation returned or threw
    args,           \* the arguments of the running invocation
    owner,          \* the tool's local company_id, as getCompanyIdFrom returned it
    schema,         \* the store: which note columns the notes tables lack
    locals,         \* the other local constants of the running handler
    db              \* the store: the associations of contacts and deals it holds

vars == <<pc, table, initialPayload, payload, attempt, inserts, calls,
          last, result, args, owner, schema, locals, db>>

(***************************************************************************)
(* Values                                                                  *)
(***************************************************************************)
Null == "null"
Undefined == "undefined"
NoError == [none |-> TRUE]
EmptyObject == [k \in {} |-> Null]

\* Columns the inserter knows how to drop or rename.
NoteColumns == {"company_id", "author", "created_by", "activity_date",
                "created_at", "body", "content", "type"}

EntityTypes == {"contact", "company", "deal", "lead"}

EntityTable(e) ==
    CASE e = "contact" -> "contacts"
      [] e = "company" -> "companies"
      [] e = "deal" -> "deals"
      [] e = "lead" -> "leads"

NotesTable(e) ==
    CASE e = "contact" -> "contact_notes"
      [] e = "company" -> "company_notes"
      [] e = "deal" -> "deal_notes"
      [] e = "lead" -> "lead_notes"

IdField(e) ==
    CASE e = "contact" -> "contact_id"
      [] e = "company" -> "company_id"
      [] e = "deal" -> "deal_id"
      [] e = "lead" -> "lead_id"

(***************************************************************************)
(* Objects                                                                 *)
(***************************************************************************)
Keys(obj) == DOMAIN obj

\* const omit = (obj, ...keys) => { const c = {...obj}; delete c[k]; return c }
omit(obj, key) == [k \in (DOMAIN obj) \ {key} |-> obj[k]]

\* { ...obj, [key]: value }
Spread(obj, key, value) ==
    [k \in (DOMAIN obj) \cup {key} |-> IF k = key THEN value ELSE obj[k]]

(***************************************************************************)
(* Texts and the regular expressions of the source                         *)
(***************************************************************************)
\* The pattern literals a fragment of text contains.
Contains(fragment) ==
    {fragment}
    \cup (IF fragment = "null value in column" THEN {"column"} ELSE {})
    \cup (IF fragment = "of relation" THEN {"relation"} ELSE {})
    \cup (IF fragment \in {"violates not-null constraint",
                           "violates foreign key constraint"}
          THEN {"violates"} ELSE {})

\* /a/i.test(text)
Test1(text, a) == \E i \in 1..Len(text) : a \in Contains(text[i])

\* /a.*b.*c/i.test(text)
Test3(text, a, b, c) ==
    \E i \in 1..Len(text) :
        /\ a \in Contains(text[i])
        /\ \E j \in (i + 1)..Len(text) :
            /\ b \in Contains(text[j])
            /\ \E k \in (j + 1)..Len(text) : c \in Contains(text[k])

\* /column .*<col>.* does not exist/i
ColumnDoesNotExist(text, col) == Test3(text, "column", col, "does not exist")

\* /null value in column .*<col>.* violates/i
NullValueViolates(text, col) == Test3(text, "null value in column", col, "violates")


(***************************************************************************)
(* The storage client: every call yields { data, error }                   *)
(***************************************************************************)
Success(data) == [error |-> NoError, data |-> <<data>>]
Failure(text) == [error |-> [message |-> text], data |-> <<>>]

UnknownColumn(col, rel) == <<"column", col, "of relation", rel, "does not exist">>
NotNullViolation(col, rel) ==
    <<"null value in column", col, "of relation", rel, "violates not-null constraint">>

\* Error texts a store may answer an insert into `rel` with.
InsertMessages(rel) ==
    {UnknownColumn(c, rel) : c \in NoteColumns}
    \cup { NotNullViolation("company_id", rel),
           <<"null value in column", "company_id", "violates not-null constraint",
             "column", "company_id", "does not exist">>,
           <<"column", "author", "does not exist", "null value in column",
             "company_id", "violates not-null constraint">>,
           <<"new row violates", "row-level security", "policy for table", rel>>,
           <<"connection timed out">> }

\* Error texts a store may answer any other call on `rel` with.
StoreMessages(rel) ==
    {UnknownColumn(c, rel) : c \in {"company_id", "type"}}
    \cup { NotNullViolation("company_id", rel),
           <<"new row violates", "row-level security", "policy for table", rel>>,
           <<"update on table", rel, "violates foreign key constraint">>,
           <<"violates foreign key constraint", "row-level security">>,
           <<"relation", rel, "does not exist">>,
           <<"connection timed out">>,
           <<>> }

\* The store of Spec answers anything; a store with a schema is the set of
\* note columns its notes tables lack.
AnyStore == {"*"}

\* insert([payload]).select().single() on `rel`
InsertResponses(rel, row) ==
    IF schema = AnyStore
    THEN {Success(row)} \cup {Failure(m) : m \in InsertMessages(rel)}
    ELSE IF Keys(row) \cap schema = {}
         THEN {Success(row)}
         ELSE {Failure(UnknownColumn(c, rel)) : c \in Keys(row) \cap schema}

(***************************************************************************)
(* What a handler returns or throws                                        *)
(***************************************************************************)
Pending == [status |-> "pending"]
Returned(v) == [status |-> "returned", value |-> v]
Threw(text) == [status |-> "threw", message |-> text]

\* const ok = (msg, json) => ({ content: [msg, json ? Result : ""] })
ok(msg, json) == [summary |-> msg, result |-> json]
NoJson == <<>>

\* JavaScript truthiness of a string-or-null value
Truthy(v) == v \notin {"", Null, Undefined}

Get(obj, key) == IF key \in DOMAIN obj THEN obj[key] ELSE Undefined

(***************************************************************************)
(* friendlySupabaseError: always throws; the text of the Error it throws   *)
(***************************************************************************)
\* A plausible slip: the foreign-key pattern is tested first.
friendlyForeignKeyFirst(rel, error) ==
    LET msg == IF error.message # <<>> THEN error.message ELSE <<"[object Object]">>
    IN  IF Test1(msg, "violates foreign key constraint")
        THEN <<"Foreign key error writing to ", rel, ": ">> \o msg
        ELSE IF Test1(msg, "row-level security")
        THEN <<"Write blocked by Row Level Security on ", rel,
               ". Use a service-role key locally or adjust RLS.">>
        ELSE msg

\* A plausible slip: the permission text leaves the table out.
friendlyWithoutTable(rel, error) ==
    LET msg == IF error.message # <<>> THEN error.message ELSE <<"[object Object]">>
    IN  IF Test1(msg, "row-level security")
        THEN <<"Write blocked by Row Level Security.",
               " Use a service-role key locally or adjust RLS.">>
        ELSE IF Test1(msg, "violates foreign key constraint")
        THEN <<"Foreign key error writing to ", rel, ": ">> \o msg
        ELSE msg

friendlySupabaseError(rel, error) ==
    LET msg == IF error.message # <<>> THEN error.message ELSE <<"[object Object]">>
    IN  IF Test1(msg, "row-level security")
        THEN <<"Write blocked by Row Level Security on ", rel,
               ". Use a service-role key locally or adjust RLS.">>
        ELSE IF Test1(msg, "violates foreign key constraint")
        THEN <<"Foreign key error writing to ", rel, ": ">> \o msg
        ELSE msg

(***************************************************************************)
(* sanitizeUpdates                                                         *)
(***************************************************************************)
DefaultBlockedKeys == {"id", "created_at"}

RECURSIVE SanitizeLoop(_, _, _, _, _)
\* for (const key of Object.keys(rawUpdates)) { ... }
SanitizeLoop(rawUpdates, todo, allowedKeys, blockedKeys, updates) ==
    IF todo = {} THEN updates
    ELSE LET key == CHOOSE k \in todo : TRUE
             next == IF key \in blockedKeys THEN updates
                     ELSE IF key \in allowedKeys
                          THEN Spread(updates, key, rawUpdates[key])
                          ELSE updates
         IN  SanitizeLoop(rawUpdates, todo \ {key}, allowedKeys, blockedKeys, next)

\* A plausible slip: the allow-list is consulted and the block-list is not.
sanitizeAllowedOnly(rawUpdates, allowedKeys, blockedKeys) ==
    [k \in Keys(rawUpdates) \cap allowedKeys |-> rawUpdates[k]]

\* A plausible slip: the block-list is consulted and the allow-list is not.
sanitizeBlockedOnly(rawUpdates, allowedKeys, blockedKeys) ==
    [k \in Keys(rawUpdates) \ blockedKeys |-> rawUpdates[k]]

sanitizeUpdates(rawUpdates, allowedKeys, blockedKeys) ==
    SanitizeLoop(rawUpdates, Keys(rawUpdates), allowedKeys, blockedKeys, EmptyObject)

(***************************************************************************)
(* getCompanyIdFrom: the owner of an entity, from the lookup's response    *)
(***************************************************************************)
\* select("company_id").eq("id", id).maybeSingle() on `rel`
LookupResponses(rel) ==
    {Success([company_id |-> c]) : c \in {"c1", "", Null}}
    \cup {Success(EmptyObject), [error |-> NoError, data |-> <<>>]}
    \cup {Failure(m) : m \in StoreMessages(rel)}

\* A plausible slip: every failed lookup throws, the unknown column too.
getCompanyIdFromStrict(rel, r) ==
    IF r.error # NoError
    THEN Threw(<<rel, " lookup failed: ">> \o r.error.message)
    ELSE IF r.data = <<>> THEN Returned(Null)
         ELSE LET v == Get(r.data[1], "company_id")
              IN  Returned(IF v \in {Null, Undefined} THEN Null ELSE v)

\* A plausible change: a failed lookup goes through friendlySupabaseError.
getCompanyIdFromClassified(rel, r) ==
    IF r.error # NoError
    THEN IF ColumnDoesNotExist(r.error.message, "company_id")
         THEN Returned(Null)
         ELSE Threw(friendlySupabaseError(rel, r.error))
    ELSE IF r.data = <<>> THEN Returned(Null)
         ELSE LET v == Get(r.data[1], "company_id")
              IN  Returned(IF v \in {Null, Undefined} THEN Null ELSE v)

getCompanyIdFrom(rel, r) ==
    IF r.error # NoError
    THEN IF ColumnDoesNotExist(r.error.message, "company_id")
         THEN Returned(Null)
         ELSE Threw(<<rel, " lookup failed: ">> \o r.error.message)
    ELSE IF r.data = <<>> THEN Returned(Null)
         ELSE LET v == Get(r.data[1], "company_id")
              IN  Returned(IF v \in {Null, Undefined} THEN Null ELSE v)

(***************************************************************************)
(* smartInsertNote                                                         *)
(***************************************************************************)
MaxAttempts == 8

\* A plausible slip: the loop runs once more.
LoopContinuesOffByOne(n) == n <= MaxAttempts

\* for (let attempt = 0; attempt < 8; attempt++)
LoopContinues(n) == n < MaxAttempts

RequiresCompanyId(rel) ==
    <<"This CRM requires company_id on ", rel,
      ". Link the entity to a company or relax NOT NULL on ", rel, ".company_id.">>

\* A plausible slip: the text leaves the table out.
InsertExhaustedWithoutTable(rel) == <<"Failed to insert after multiple attempts.">>

InsertExhausted(rel) == <<"Failed to insert into ", rel, " after multiple attempts.">>

Retry(p) == [kind |-> "continue", payload |-> p]
Throw(text) == [kind |-> "throw", message |-> text]

NoRule == [kind |-> "none"]

\* A plausible slip: the rule of type is left out.
RenameOrDropRulesWithoutType(msg, p, initial) ==
    IF ColumnDoesNotExist(msg, "author") /\ "author" \in Keys(p)
    THEN Retry(Spread(omit(p, "author"), "created_by",
                      IF Truthy(Get(initial, "author"))
                      THEN initial["author"] ELSE "mcp"))
    ELSE IF ColumnDoesNotExist(msg, "created_by") /\ "created_by" \in Keys(p)
    THEN Retry(omit(p, "created_by"))
    ELSE IF ColumnDoesNotExist(msg, "activity_date") /\ "activity_date" \in Keys(p)
    THEN Retry(Spread(omit(p, "activity_date"), "created_at", p["activity_date"]))
    ELSE IF ColumnDoesNotExist(msg, "created_at") /\ "created_at" \in Keys(p)
    THEN Retry(omit(p, "created_at"))
    ELSE IF ColumnDoesNotExist(msg, "body") /\ "body" \in Keys(p)
    THEN Retry(Spread(omit(p, "body"), "content", p["body"]))
    ELSE IF ColumnDoesNotExist(msg, "content") /\ "content" \in Keys(p)
    THEN Retry(omit(p, "content"))
    ELSE NoRule

\* A plausible slip: a rename drops the old key and adds no replacement.
RenameOrDropRulesDropOnly(msg, p, initial) ==
    IF ColumnDoesNotExist(msg, "author") /\ "author" \in Keys(p)
    THEN Retry(omit(p, "author"))
    ELSE IF ColumnDoesNotExist(msg, "created_by") /\ "created_by" \in Keys(p)
    THEN Retry(omit(p, "created_by"))
    ELSE IF ColumnDoesNotExist(msg, "activity_date") /\ "activity_date" \in Keys(p)
    THEN Retry(omit(p, "activity_date"))
    ELSE IF ColumnDoesNotExist(msg, "created_at") /\ "created_at" \in Keys(p)
    THEN Retry(omit(p, "created_at"))
    ELSE IF ColumnDoesNotExist(msg, "body") /\ "body" \in Keys(p)
    THEN Retry(omit(p, "body"))
    ELSE IF ColumnDoesNotExist(msg, "content") /\ "content" \in Keys(p)
    THEN Retry(omit(p, "content"))
    ELSE IF ColumnDoesNotExist(msg, "type") /\ "type" \in Keys(p)
    THEN Retry(omit(p, "type"))
    ELSE NoRule

\* The rename and drop rules of author, created_by, activity_date, created_at,
\* body, content and type, in the order of the source; each asks for its
\* field in the payload.
RenameOrDropRules(msg, p, initial) ==
    IF ColumnDoesNotExist(msg, "author") /\ "author" \in Keys(p)
    THEN Retry(Spread(omit(p, "author"), "created_by",
                      IF Truthy(Get(initial, "author"))
                      THEN initial["author"] ELSE "mcp"))
    ELSE IF ColumnDoesNotExist(msg, "created_by") /\ "created_by" \in Keys(p)
    THEN Retry(omit(p, "created_by"))
    ELSE IF ColumnDoesNotExist(msg, "activity_date") /\ "activity_date" \in Keys(p)
    THEN Retry(Spread(omit(p, "activity_date"), "created_at", p["activity_date"]))
    ELSE IF ColumnDoesNotExist(msg, "created_at") /\ "created_at" \in Keys(p)
    THEN Retry(omit(p, "created_at"))
    ELSE IF ColumnDoesNotExist(msg, "body") /\ "body" \in Keys(p)
    THEN Retry(Spread(omit(p, "body"), "content", p["body"]))
    ELSE IF ColumnDoesNotExist(msg, "content") /\ "content" \in Keys(p)
    THEN Retry(omit(p, "content"))
    ELSE IF ColumnDoesNotExist(msg, "type") /\ "type" \in Keys(p)
    THEN Retry(omit(p, "type"))
    ELSE NoRule

\* A plausible slip: the rename and drop rules are tried before the two
\* company_id rules.
ColumnRulesRenameFirst(rel, error, p, initial) ==
    LET msg == error.message
        rule == RenameOrDropRules(msg, p, initial)
    IN  IF rule.kind # "none" THEN rule
        ELSE IF ColumnDoesNotExist(msg, "company_id")
        THEN Retry(omit(p, "company_id"))
        ELSE IF NullValueViolates(msg, "company_id")
        THEN Throw(RequiresCompanyId(rel))
        ELSE Throw(friendlySupabaseError(rel, error))

\* The order the rules are described in: the not-null test on company_id
\* comes before the unknown-column test on it.
ColumnRulesNotNullFirst(rel, error, p, initial) ==
    LET msg == error.message
    IN  IF NullValueViolates(msg, "company_id")
        THEN Throw(RequiresCompanyId(rel))
        ELSE IF ColumnDoesNotExist(msg, "company_id")
        THEN Retry(omit(p, "company_id"))
        ELSE LET rule == RenameOrDropRules(msg, p, initial)
             IN  IF rule.kind # "none" THEN rule
                 ELSE Throw(friendlySupabaseError(rel, error))

\* The body of the loop after a failed insert: the first matching rule.
ColumnRules(rel, error, p, initial) ==
    LET msg == error.message
    IN  IF ColumnDoesNotExist(msg, "company_id")
        THEN Retry(omit(p, "company_id"))
        ELSE IF NullValueViolates(msg, "company_id")
        THEN Throw(RequiresCompanyId(rel))
        ELSE LET rule == RenameOrDropRules(msg, p, initial)
             IN  IF rule.kind # "none" THEN rule
                 ELSE Throw(friendlySupabaseError(rel, error))

\* One iteration of the loop, from the response to the insert it awaited, up
\* to the next await, return or throw.
smartInsertNote(rel, initial, p, n, r) ==
    IF r.error = NoError
    THEN [pc |-> "done", payload |-> p, attempt |-> n,
          result |-> Returned(r.data[1])]
    ELSE LET rule == ColumnRules(rel, r.error, p, initial)
         IN  IF rule.kind = "throw"
             THEN [pc |-> "done", payload |-> p, attempt |-> n,
                   result |-> Threw(rule.message)]
             ELSE IF LoopContinues(n + 1)
             THEN [pc |-> "insert", payload |-> rule.payload, attempt |-> n + 1,
                   result |-> Pending]
             ELSE [pc |-> "done", payload |-> rule.payload, attempt |-> n + 1,
                   result |-> Threw(InsertExhausted(rel))]


(***************************************************************************)
(* Inputs                                                                  *)
(***************************************************************************)
EntityIds == {"e1"}
Bodies == {"hi"}
\* author: z.string().optional(); Undefined is the argument left out.  Every
\* note tool runs with the author left out; deal and company notes also run
\* with an empty and with a given author.
Authors(e) ==
    IF e \in {"deal", "company"} THEN {Undefined, "", "mcp"} ELSE {Undefined}
\* new Date().toISOString()
Timestamps == {"2024-01-01"}

\* async ({ ..., author = "Claude via MCP" }) =>
DefaultAuthor(a) == IF a = Undefined THEN "Claude via MCP" ELSE a

NoResponse == [op |-> "none", table |-> "none", error |-> NoError, data |-> <<>>]
Response(op, rel, r) == [op |-> op, table |-> rel, error |-> r.error, data |-> r.data]

\* A plausible reading: company_id goes in whenever it is not null.
NoteBaseNonNull(e, id, body, author, when, company_id) ==
    LET base == [k \in {IdField(e), "body", "author", "type", "activity_date"} |->
                    CASE k = IdField(e) -> id
                      [] k = "body" -> body
                      [] k = "author" -> author
                      [] k = "type" -> "note"
                      [] k = "activity_date" -> when]
    IN  IF company_id # Null THEN Spread(base, "company_id", company_id) ELSE base

\* const base = { <entity>_id, body, author, type: "note", activity_date,
\*                ...(company_id ? { company_id } : {}) }
NoteBase(e, id, body, author, when, company_id) ==
    LET base == [k \in {IdField(e), "body", "author", "type", "activity_date"} |->
                    CASE k = IdField(e) -> id
                      [] k = "body" -> body
                      [] k = "author" -> author
                      [] k = "type" -> "note"
                      [] k = "activity_date" -> when]
    IN  IF Truthy(company_id) THEN Spread(base, "company_id", company_id) ELSE base

(***************************************************************************)
(* The note tools                                                          *)
(***************************************************************************)
\* A note tool of an entity with an owner: the handler up to its first await,
\* the lookup of getCompanyIdFrom.
StartEntityNote(e, id, body, author) ==
    /\ pc = "idle"
    /\ pc' = "lookup"
    /\ table' = EntityTable(e)
    /\ args' = [tool |-> "note", entity_type |-> e, entity_id |-> id,
                body |-> body, author |-> DefaultAuthor(author)]
    /\ calls' = 1
    /\ UNCHANGED <<initialPayload, payload, attempt, inserts, last, result,
                   owner, schema, db, locals>>

\* A note tool of a company: the handler up to the first insert of
\* smartInsertNote.
StartCompanyNote(id, body, author, when) ==
    LET base == NoteBase("company", id, body, DefaultAuthor(author), when, Null)
    IN  /\ pc = "idle"
        /\ pc' = "insert"
            /\ table' = NotesTable("company")
        /\ args' = [tool |-> "note", entity_type |-> "company", entity_id |-> id,
                    body |-> body, author |-> DefaultAuthor(author)]
        /\ initialPayload' = base
        /\ payload' = base
        /\ attempt' = 0
        /\ inserts' = 1
        /\ calls' = 1
        /\ UNCHANGED <<last, result, owner, schema, db, locals>>

crm_add_deal_note ==
    \E id \in EntityIds, body \in Bodies, author \in Authors("deal") :
        StartEntityNote("deal", id, body, author)

crm_add_lead_note ==
    \E id \in EntityIds, body \in Bodies, author \in Authors("lead") :
        StartEntityNote("lead", id, body, author)

crm_add_contact_note ==
    \E id \in EntityIds, body \in Bodies, author \in Authors("contact") :
        StartEntityNote("contact", id, body, author)

crm_add_company_note ==
    \E id \in EntityIds, body \in Bodies, author \in Authors("company"),
       when \in Timestamps :
        StartCompanyNote(id, body, author, when)

crm_add_note ==
    \E e \in EntityTypes, id \in EntityIds, body \in Bodies, when \in Timestamps :
      \E author \in Authors(e) :
        IF e = "company"
        THEN StartCompanyNote(id, body, author, when)
        ELSE StartEntityNote(e, id, body, author)

\* The lookup of getCompanyIdFrom answers: the handler throws, or builds the
\* base payload and issues the first insert of smartInsertNote.
OwnerLookupReturns ==
    /\ pc = "lookup"
    /\ \E r \in LookupResponses(table), when \in Timestamps :
        LET got == getCompanyIdFrom(table, r)
            base == NoteBase(args.entity_type, args.entity_id, args.body,
                             args.author, when, got.value)
        IN  /\ last' = Response("lookup", table, r)
            /\ IF got.status = "threw"
               THEN /\ pc' = "done"
                    /\ result' = got
                    /\ UNCHANGED <<table, initialPayload, payload, attempt,
                                   inserts, calls, owner>>
               ELSE /\ pc' = "insert"
                    /\ owner' = got.value
                    /\ table' = NotesTable(args.entity_type)
                    /\ initialPayload' = base
                    /\ payload' = base
                    /\ attempt' = 0
                    /\ inserts' = 1
                    /\ calls' = calls + 1
                    /\ UNCHANGED result
    /\ UNCHANGED <<args, schema, db, locals>>

\* An insert of smartInsertNote answers: one iteration of its loop, and the
\* tool's return when the inserter returns.
InsertReturns ==
    /\ pc = "insert"
    /\ \E r \in InsertResponses(table, payload) :
        LET s == smartInsertNote(table, initialPayload, payload, attempt, r)
        IN  /\ last' = Response("insert", table, r)
            /\ pc' = s.pc
            /\ payload' = s.payload
            /\ attempt' = s.attempt
            /\ inserts' = IF s.pc = "insert" THEN inserts + 1 ELSE inserts
            /\ calls' = IF s.pc = "insert" THEN calls + 1 ELSE calls
            /\ result' = IF s.result.status = "returned"
                         THEN Returned(ok(<<"Added note to ", args.entity_type, " ",
                                            args.entity_id, ".">>,
                                          <<s.result.value>>))
                         ELSE s.result
    /\ UNCHANGED <<table, initialPayload, args, owner, schema, db, locals>>

(***************************************************************************)
(* The generic update tools                                                *)
(***************************************************************************)
\* const allowed = [ ... ] of each tool
AllowedContact == {"first_name", "last_name", "email", "phone", "company_id",
                   "title", "notes", "full_name"}
AllowedCompany == {"name", "website", "phone", "address", "industry", "notes"}
AllowedLead == {"first_name", "last_name", "email", "phone", "company", "source",
                "status", "message"}
AllowedDeal == {"title", "status", "amount", "stage_id", "pipeline_id",
                "company_id", "contact_person_id", "notes"}

\* updates: z.record(z.any())
UpdateKeys == {"id", "created_at", "notes", "status", "password"}
UpdateValues == {"v"}
UpdateInputs == UNION {[ks -> UpdateValues] : ks \in SUBSET UpdateKeys}

\* update(patch).eq("id", id).select().single() on `rel`
UpdateResponses(rel, id, patch) ==
    {Success(Spread(patch, "id", id))} \cup {Failure(m) : m \in StoreMessages(rel)}

\* A generic update tool: the handler up to its return or its await.
UpdateTool(e, allowed, id, updates) ==
    LET patch == sanitizeUpdates(updates, allowed, DefaultBlockedKeys)
    IN  /\ pc = "idle"
            /\ args' = [tool |-> "update", entity_type |-> e, entity_id |-> id,
                    updates |-> updates]
        /\ payload' = patch
        /\ IF Keys(patch) = {}
           THEN /\ pc' = "done"
                /\ result' = Returned(ok(<<"No valid fields to update.">>, NoJson))
                /\ UNCHANGED <<table, calls>>
           ELSE /\ pc' = "update"
                /\ table' = EntityTable(e)
                /\ calls' = 1
                /\ UNCHANGED result
        /\ UNCHANGED <<initialPayload, attempt, inserts, last, owner, schema, db, locals>>

crm_update_contact ==
    \E id \in EntityIds, updates \in UpdateInputs :
        UpdateTool("contact", AllowedContact, id, updates)

crm_update_company ==
    \E id \in EntityIds, updates \in UpdateInputs :
        UpdateTool("company", AllowedCompany, id, updates)

crm_update_lead ==
    \E id \in EntityIds, updates \in UpdateInputs :
        UpdateTool("lead", AllowedLead, id, updates)

crm_update_deal_generic ==
    \E id \in EntityIds, updates \in UpdateInputs :
        UpdateTool("deal", AllowedDeal, id, updates)

\* The summary of the envelope an update tool returns for the row `data`.
UpdatedSummary(data) ==
    CASE args.tool = "crm_update_lead_status" ->
            <<"Updated lead ", args.entity_id, " status to ", Get(data, "status")>>
      [] args.tool = "crm_cancel_deal" ->
            <<"Deal ", args.entity_id, " moved to ", payload["status"], " status.">>
            \o (IF "notes" \in Keys(payload)
                THEN <<" Reason: ", payload["notes"]>> ELSE <<>>)
      [] OTHER -> <<"Updated ", args.entity_type, " ", args.entity_id, ".">>

\* The update answers: if (error) friendlySupabaseError(...); return ok(...)
UpdateReturns ==
    /\ pc = "update"
    /\ \E r \in UpdateResponses(table, args.entity_id, payload) :
        /\ last' = Response("update", table, r)
        /\ pc' = "done"
        /\ result' = IF r.error # NoError
                     THEN Threw(friendlySupabaseError(table, r.error))
                     ELSE Returned(ok(UpdatedSummary(r.data[1]), r.data))
    /\ UNCHANGED <<table, initialPayload, payload, attempt, inserts, calls,
                   args, owner, schema, db, locals>>

(***************************************************************************)
(* The server                                                              *)
(***************************************************************************)
NoArgs == [tool |-> "none"]
NoLocals == [tool |-> "none"]

\* The store of every specification but AssocSpec answers anything and its
\* associations are not followed.
NoDb == [none |-> TRUE]

Idle ==
    /\ pc = "idle"
    /\ table = "none"
    /\ initialPayload = EmptyObject
    /\ payload = EmptyObject
    /\ attempt = 0
    /\ inserts = 0
    /\ calls = 0
    /\ last = NoResponse
    /\ result = Pending
    /\ args = NoArgs
    /\ owner = Undefined
    /\ locals = NoLocals

\* The envelope or the failure goes back to the caller; nothing of the
\* invocation is kept.
Return ==
    /\ pc = "done"
    /\ pc' = "idle"
    /\ table' = "none"
    /\ initialPayload' = EmptyObject
    /\ payload' = EmptyObject
    /\ attempt' = 0
    /\ inserts' = 0
    /\ calls' = 0
    /\ last' = NoResponse
    /\ result' = Pending
    /\ args' = NoArgs
    /\ owner' = Undefined
    /\ locals' = NoLocals
    /\ UNCHANGED <<schema, db>>

Init == Idle /\ schema = AnyStore /\ db = NoDb

Next ==
    \/ crm_add_deal_note
    \/ crm_add_lead_note
    \/ crm_add_contact_note
    \/ crm_add_company_note
    \/ crm_add_note
    \/ OwnerLookupReturns
    \/ InsertReturns
    \/ crm_update_contact
    \/ crm_update_company
    \/ crm_update_lead
    \/ crm_update_deal_generic
    \/ UpdateReturns
    \/ Return

Spec == Init /\ [][Next]_vars

\* Every storage call is answered.
FairSpec ==
    Spec /\ WF_vars(OwnerLookupReturns) /\ WF_vars(InsertReturns)
         /\ WF_vars(UpdateReturns)

\* The same server on a store with a schema: its notes tables lack some of
\* the note columns, and an insert fails on one lacking column of the row.
SchemaInit == Idle /\ schema \in SUBSET NoteColumns /\ db = NoDb

SchemaNext ==
    \/ crm_add_deal_note
    \/ crm_add_company_note
    \/ OwnerLookupReturns
    \/ InsertReturns
    \/ Return

SchemaSpec == SchemaInit /\ [][SchemaNext]_vars

(***************************************************************************)
(* sanitizeUpdates on its own: any mapping, allow-list and block-list      *)
(***************************************************************************)
SanitizeKeys == {"id", "created_at", "notes"}
SanitizeValues == {"v", "w"}
SanitizeInputs == UNION {[ks -> SanitizeValues] : ks \in SUBSET SanitizeKeys}

SanitizeInit ==
    /\ pc = "sanitize"
    /\ args \in [tool : {"sanitize"}, rawUpdates : SanitizeInputs,
                 allowedKeys : SUBSET SanitizeKeys,
                 blockedKeys : SUBSET SanitizeKeys]
    /\ table = "none"
    /\ initialPayload = EmptyObject
    /\ payload = EmptyObject
    /\ attempt = 0
    /\ inserts = 0
    /\ calls = 0
    /\ last = NoResponse
    /\ result = Pending
    /\ owner = Undefined
    /\ schema = AnyStore
    /\ locals = NoLocals
    /\ db = NoDb

Sanitize ==
    /\ pc = "sanitize"
    /\ pc' = "sanitized"
    /\ payload' = sanitizeUpdates(args.rawUpdates, args.allowedKeys, args.blockedKeys)
    /\ UNCHANGED <<table, initialPayload, attempt, inserts, calls, last, result,
                   args, owner, schema, db, locals>>

SanitizeSpec == SanitizeInit /\ [][Sanitize]_vars

(***************************************************************************)
(* The read tools: search, deals of a contact, associations of a contact   *)
(***************************************************************************)
ContactIds == {"k1", "k2"}
DealIds == {"d1", "d2"}
Titles == {"a", "b"}
Queries == {"q"}

\* The most rows the store holds for one query.
MaxRows == 2

\* limit: z.number().min(1).max(100).optional(); <<>> is the argument left out.
LimitInputs == {<<>>} \cup {<<n>> : n \in {0, 1, 2, 100, 101}}
ValidLimit(limit) == limit = <<>> \/ (limit[1] >= 1 /\ limit[1] <= 100)

\* async ({ ..., limit = <default> }) =>
DefaultLimit(limit, default) == IF limit = <<>> THEN default ELSE limit[1]

\* The server refuses arguments that do not fit the tool's inputSchema; the
\* handler does not run.
InvalidArguments == Threw(<<"Invalid arguments">>)

Min(a, b) == IF a <= b THEN a ELSE b

SeqsUpTo(S, n) == UNION {[1..k -> S] : k \in 0..n}

\* A deal as the store returns it.
DealRows == [id : DealIds, title : Titles]

\* The rows of `deals` a select matches, at most n: a deal comes once.
DirectRows(n) ==
    {rows \in SeqsUpTo(DealRows, Min(n, MaxRows)) :
        \A i, j \in 1..Len(rows) : i # j => rows[i].id # rows[j].id}

\* The rows of `deal_contacts` a select matches, at most n, each with its
\* embedded deal (deals: null when the deal is gone).  The junction may hold
\* a contact and a deal more than once: crm_link_contact_deal inserts.
JunctionRows(n) ==
    SeqsUpTo({[deals |-> <<>>]} \cup {[deals |-> <<d>>] : d \in DealRows},
             Min(n, MaxRows))

Rows(rows) == [error |-> NoError, data |-> rows]

\* select(...).limit(n) on `rel`: the store honours the limit.
SelectResponses(rel, rows) ==
    {Rows(d) : d \in rows} \cup {Failure(m) : m \in StoreMessages(rel)}

\* /relation.*deal_contacts.*does not exist/i
RelationDoesNotExist(text, rel) == Test3(text, "relation", rel, "does not exist")

Found(n, what) == <<"Found ", ToString(n), what>>

(***************************************************************************)
(* A store that holds the associations of contacts and deals: whether the  *)
(* relation deal_contacts exists, its rows, and contact_person_id of each  *)
(* deal.                                                                   *)
(***************************************************************************)
DealOrder == <<"d1", "d2">>
DealRow(d) == [id |-> d, title |-> "a"]

FirstN(rows, n) == SubSeq(rows, 1, Min(n, Len(rows)))

JunctionMissing == <<"relation", "deal_contacts", "does not exist">>

\* select(...).eq("contact_person_id", contact_id).limit(n) on deals
DirectSelect(store, contact_id, n) ==
    LET Matches(d) == store.direct[d] = contact_id
        ds == SelectSeq(DealOrder, Matches)
    IN  Rows(FirstN([i \in 1..Len(ds) |-> DealRow(ds[i])], n))

\* select("deals:deal_id (...)").eq("contact_id", contact_id).limit(n) on
\* deal_contacts
JunctionSelect(store, contact_id, n) ==
    IF ~store.exists THEN Failure(JunctionMissing)
    ELSE LET Matches(row) == row.contact_id = contact_id
             js == SelectSeq(store.junction, Matches)
         IN  Rows(FirstN([i \in 1..Len(js) |-> [deals |-> <<DealRow(js[i].deal_id)>>]],
                         n))

DirectResponses(contact_id, n) ==
    IF db = NoDb THEN SelectResponses("deals", DirectRows(n))
    ELSE {DirectSelect(db, contact_id, n)}

JunctionResponses(contact_id, n) ==
    IF db = NoDb THEN SelectResponses("deal_contacts", JunctionRows(n))
    ELSE {JunctionSelect(db, contact_id, n)}

ReadStart(tool, key, value, limit, default, first, rel) ==
    /\ pc = "idle"
    /\ args' = Spread([tool |-> tool, limit |-> limit], key, value)
    /\ IF ValidLimit(limit)
       THEN /\ pc' = first
            /\ table' = rel
            /\ calls' = 1
            /\ locals' = [limit |-> DefaultLimit(limit, default)]
            /\ UNCHANGED result
       ELSE /\ pc' = "done"
            /\ result' = InvalidArguments
            /\ UNCHANGED <<table, calls, locals>>
    /\ UNCHANGED <<initialPayload, payload, attempt, inserts, last, owner, schema, db>>

crm_search_contacts ==
    \E query \in Queries, limit \in LimitInputs :
        ReadStart("crm_search_contacts", "query", query, limit, 10, "search", "contacts")

crm_search_companies ==
    \E query \in Queries, limit \in LimitInputs :
        ReadStart("crm_search_companies", "query", query, limit, 10, "search", "companies")

crm_search_leads ==
    \E query \in Queries, limit \in LimitInputs :
        ReadStart("crm_search_leads", "query", query, limit, 10, "search", "leads")

crm_search_deals ==
    \E query \in Queries, limit \in LimitInputs :
        ReadStart("crm_search_deals", "query", query, limit, 10, "search", "deals")

crm_get_deals_by_contact ==
    \E contact_id \in ContactIds, limit \in LimitInputs :
        ReadStart("crm_get_deals_by_contact", "contact_id", contact_id, limit, 50, "direct", "deals")

crm_list_contact_deals ==
    \E contact_id \in ContactIds, limit \in LimitInputs :
        ReadStart("crm_list_contact_deals", "contact_id", contact_id, limit, 50, "direct", "deals")

\* No limit: the store answers with every row it holds.
crm_get_contact_deal_associations ==
    /\ pc = "idle"
    /\ pc' = "direct"
    /\ \E contact_id \in ContactIds :
        args' = [tool |-> "crm_get_contact_deal_associations", limit |-> <<>>,
                 contact_id |-> contact_id]
    /\ table' = "deals"
    /\ calls' = 1
    /\ locals' = [limit |-> MaxRows]
    /\ UNCHANGED <<initialPayload, payload, attempt, inserts, last, result, owner,
                   schema, db>>

\* The select of a search tool answers.  crm_search_deals tries a simpler
\* select when the message includes 'relation' or 'column'.
SearchReturns ==
    /\ pc = "search"
    /\ \E r \in SelectResponses(table, DirectRows(locals.limit)) :
        /\ last' = Response("select", table, r)
        /\ IF r.error = NoError
           THEN /\ pc' = "done"
                /\ result' = Returned(ok(Found(Len(r.data), " matching"), r.data))
                /\ UNCHANGED <<calls, locals>>
           ELSE IF /\ args.tool = "crm_search_deals"
                   /\ "error" \notin DOMAIN locals
                   /\ Test1(r.error.message, "relation") \/ Test1(r.error.message, "column")
           THEN /\ pc' = "search"
                /\ calls' = calls + 1
                /\ locals' = [limit |-> locals.limit, error |-> r.error]
                /\ UNCHANGED result
           ELSE /\ pc' = "done"
                /\ result' = Threw(friendlySupabaseError(table, r.error))
                /\ UNCHANGED <<calls, locals>>
    /\ UNCHANGED <<table, initialPayload, payload, attempt, inserts, args, owner,
                   schema, db>>

RECURSIVE MergeLoop(_, _, _)
\* for (const junctionDeal of junctionDeals) { if (junctionDeal.deals &&
\*   !junctionDealIds.has(junctionDeal.deals.id)) allDeals.push(...) }
MergeLoop(allDeals, junctionDealIds, junctionDeals) ==
    IF junctionDeals = <<>> THEN allDeals
    ELSE LET junctionDeal == Head(junctionDeals)
             pushed == IF /\ junctionDeal.deals # <<>>
                          /\ junctionDeal.deals[1].id \notin junctionDealIds
                       THEN Append(allDeals, junctionDeal.deals[1])
                       ELSE allDeals
         IN  MergeLoop(pushed, junctionDealIds, Tail(junctionDeals))

\* const allDeals = [...directDeals];
\* const junctionDealIds = new Set(allDeals.map(d => d.id));
MergeDeals(directDeals, junctionDeals) ==
    MergeLoop(directDeals, {directDeals[i].id : i \in 1..Len(directDeals)},
              junctionDeals)

\* The select on deals by contact_person_id answers.
DirectReturns ==
    /\ pc = "direct"
    /\ \E r \in DirectResponses(args.contact_id, locals.limit) :
        /\ last' = Response("select", "deals", r)
        /\ IF args.tool = "crm_get_contact_deal_associations"
           THEN /\ pc' = "junction"
                /\ table' = "deal_contacts"
                /\ calls' = calls + 1
                /\ locals' = [limit |-> locals.limit, directError |-> r.error,
                              direct_deals |-> r.data]
                /\ UNCHANGED result
           ELSE IF r.error # NoError
           THEN /\ pc' = "done"
                /\ result' = Threw(friendlySupabaseError("deals", r.error))
                /\ UNCHANGED <<table, calls, locals>>
           ELSE /\ pc' = "junction"
                /\ table' = "deal_contacts"
                /\ calls' = calls + 1
                /\ locals' = [limit |-> locals.limit, directError |-> r.error,
                              directDeals |-> r.data]
                /\ UNCHANGED result
    /\ UNCHANGED <<initialPayload, payload, attempt, inserts, args, owner, schema, db>>

\* crm_get_deals_by_contact after its select on deal_contacts
DealsByContactResult(directDeals, r) ==
    IF r.error # NoError
    THEN IF RelationDoesNotExist(r.error.message, "deal_contacts")
         THEN Returned(ok(Found(Len(directDeals), " deals for contact"), directDeals))
         ELSE Threw(friendlySupabaseError("deal_contacts", r.error))
    ELSE LET allDeals == MergeDeals(directDeals, r.data)
         IN  Returned(ok(Found(Len(allDeals), " deals for contact"), allDeals))

\* crm_list_contact_deals after its select on deal_contacts
ListContactDealsResult(directDeals, r) ==
    IF r.error # NoError /\ ~RelationDoesNotExist(r.error.message, "deal_contacts")
    THEN Threw(friendlySupabaseError("deal_contacts", r.error))
    ELSE LET allDeals == MergeDeals(directDeals, r.data)
         IN  Returned(ok(Found(Len(allDeals), " deals for contact"), allDeals))

\* crm_get_contact_deal_associations after its select on deal_contacts
AssociationsResult(direct_deals, r) ==
    LET junction_deals == IF r.error = NoError THEN r.data ELSE <<>>
        total_deals == Len(direct_deals) + Len(junction_deals)
    IN  Returned(ok(Found(total_deals, " deal associations for contact"),
                    <<[direct_deals |-> direct_deals,
                       junction_deals |-> junction_deals,
                       total_deals |-> total_deals]>>))

\* The select on deal_contacts by contact_id answers.
JunctionReturns ==
    /\ pc = "junction"
    /\ \E r \in JunctionResponses(args.contact_id, locals.limit) :
        /\ last' = Response("select", "deal_contacts", r)
        /\ pc' = "done"
        /\ result' =
            CASE args.tool = "crm_get_deals_by_contact" ->
                    DealsByContactResult(locals.directDeals, r)
              [] args.tool = "crm_list_contact_deals" ->
                    ListContactDealsResult(locals.directDeals, r)
              [] args.tool = "crm_get_contact_deal_associations" ->
                    AssociationsResult(locals.direct_deals, r)
    /\ UNCHANGED <<table, initialPayload, payload, attempt, inserts, calls, args,
                   owner, schema, db, locals>>

ReadNext ==
    \/ crm_search_contacts
    \/ crm_search_companies
    \/ crm_search_leads
    \/ crm_search_deals
    \/ crm_get_deals_by_contact
    \/ crm_list_contact_deals
    \/ crm_get_contact_deal_associations
    \/ SearchReturns
    \/ DirectReturns
    \/ JunctionReturns
    \/ Return

ReadSpec == Init /\ [][ReadNext]_vars

(***************************************************************************)
(* The tools linking a contact and a deal                                  *)
(***************************************************************************)
\* is_main_contact: z.boolean().optional(), false when left out
MainContactInputs == {Undefined, "true"}
\* role_at_deal: z.string().optional()
Roles == {Undefined, "buyer"}

\* Error texts a store may answer a write on `rel` with: those of any call,
\* and a column of the row that `rel` lacks.
LinkMessages(rel) == StoreMessages(rel) \cup {UnknownColumn("role_at_deal", rel)}

\* insert([row]).select().maybeSingle(), or delete().eq().eq(), on deal_contacts
JunctionWriteResponses(row) ==
    {Success(row)} \cup {Failure(m) : m \in LinkMessages("deal_contacts")}

\* update(patch).eq("id", deal_id)...select() on deals; maybeSingle() may
\* match no row.
FallbackResponses(id, patch) ==
    UpdateResponses("deals", id, patch) \cup {[error |-> NoError, data |-> <<>>]}

\* The most rows the relation deal_contacts comes to hold.
MaxLinks == 2

\* The insert into, or the delete from, deal_contacts by the store `store`:
\* its response and the store after it.
JunctionWrite(store, tool, row, contact_id, deal_id) ==
    IF ~store.exists
    THEN [r |-> Failure(JunctionMissing), db |-> store]
    ELSE IF tool = "crm_link_contact_deal"
    THEN [r |-> Success(row),
          db |-> [store EXCEPT !.junction =
                     Append(@, [contact_id |-> contact_id, deal_id |-> deal_id])]]
    ELSE LET Others(j) == ~(j.contact_id = contact_id /\ j.deal_id = deal_id)
         IN  [r |-> Success(row),
              db |-> [store EXCEPT !.junction = SelectSeq(@, Others)]]

\* The update of contact_person_id of deal `deal_id` by the store `store`:
\* set on link; on unlink cleared where it is `contact_id`.
FallbackWrite(store, tool, patch, contact_id, deal_id) ==
    IF tool = "crm_link_contact_deal" \/ store.direct[deal_id] = contact_id
    THEN [r |-> Success(Spread(patch, "id", deal_id)),
          db |-> [store EXCEPT !.direct[deal_id] = patch["contact_person_id"]]]
    ELSE [r |-> [error |-> NoError, data |-> <<>>], db |-> store]

JunctionWrites(row) ==
    IF db = NoDb THEN {[r |-> r, db |-> db] : r \in JunctionWriteResponses(row)}
    ELSE {JunctionWrite(db, args.tool, row, args.contact_id, args.deal_id)}

FallbackWrites(patch) ==
    IF db = NoDb THEN {[r |-> r, db |-> db] : r \in FallbackResponses(args.deal_id, patch)}
    ELSE {FallbackWrite(db, args.tool, patch, args.contact_id, args.deal_id)}

crm_link_contact_deal ==
    \E contact_id \in ContactIds, deal_id \in DealIds,
       is_main_contact \in MainContactInputs, role_at_deal \in Roles :
        /\ pc = "idle"
        /\ IF db = NoDb THEN TRUE ELSE Len(db.junction) < MaxLinks
        /\ pc' = "junction_write"
        /\ args' = [tool |-> "crm_link_contact_deal", contact_id |-> contact_id,
                    deal_id |-> deal_id]
        /\ table' = "deal_contacts"
        /\ payload' = [contact_id |-> contact_id, deal_id |-> deal_id,
                       is_main_contact |-> IF is_main_contact = Undefined
                                           THEN "false" ELSE is_main_contact,
                       role_at_deal |-> role_at_deal]
        /\ inserts' = 1
        /\ calls' = 1
        /\ UNCHANGED <<initialPayload, attempt, last, result, owner, schema, db, locals>>

crm_unlink_contact_deal ==
    \E contact_id \in ContactIds, deal_id \in DealIds :
        /\ pc = "idle"
        /\ pc' = "junction_write"
        /\ args' = [tool |-> "crm_unlink_contact_deal", contact_id |-> contact_id,
                    deal_id |-> deal_id]
        /\ table' = "deal_contacts"
        /\ calls' = 1
        /\ UNCHANGED <<initialPayload, payload, attempt, inserts, last, result,
                       owner, schema, db, locals>>

Linked(contact_id, deal_id, how) ==
    <<"Linked contact ", contact_id, " to deal ", deal_id, how>>
Unlinked(contact_id, deal_id, how) ==
    <<"Unlinked contact ", contact_id, " from deal ", deal_id, how>>

\* The insert into, or the delete from, deal_contacts answers.
JunctionWriteReturns ==
    /\ pc = "junction_write"
    /\ \E w \in JunctionWrites(payload) : LET r == w.r IN
        /\ db' = w.db
        /\ last' = Response(IF args.tool = "crm_link_contact_deal"
                            THEN "insert" ELSE "delete", "deal_contacts", r)
        /\ IF r.error = NoError
           THEN /\ pc' = "done"
                /\ result' = IF args.tool = "crm_link_contact_deal"
                             THEN Returned(ok(Linked(args.contact_id, args.deal_id, "."),
                                              r.data))
                             ELSE Returned(ok(Unlinked(args.contact_id, args.deal_id, "."),
                                              NoJson))
                /\ UNCHANGED <<table, payload, calls, locals>>
           ELSE IF RelationDoesNotExist(r.error.message, "deal_contacts")
           THEN /\ pc' = "fallback"
                /\ table' = "deals"
                /\ payload' = [contact_person_id |->
                                  IF args.tool = "crm_link_contact_deal"
                                  THEN args.contact_id ELSE Null]
                /\ calls' = calls + 1
                /\ locals' = [error |-> r.error]
                /\ UNCHANGED result
           ELSE /\ pc' = "done"
                /\ result' = Threw(friendlySupabaseError("deal_contacts", r.error))
                /\ UNCHANGED <<table, payload, calls, locals>>
    /\ UNCHANGED <<initialPayload, attempt, inserts, args, owner, schema>>

\* The update of deals.contact_person_id answers.
FallbackReturns ==
    /\ pc = "fallback"
    /\ \E w \in FallbackWrites(payload) : LET r == w.r IN
        /\ db' = w.db
        /\ last' = Response("update", "deals", r)
        /\ pc' = "done"
        /\ result' =
            IF r.error # NoError
            THEN Threw(friendlySupabaseError("deals", r.error))
            ELSE IF args.tool = "crm_link_contact_deal"
            THEN Returned(ok(Linked(args.contact_id, args.deal_id,
                                    " (via deals.contact_person_id)."), r.data))
            ELSE Returned(ok(Unlinked(args.contact_id, args.deal_id, " (fallback)."),
                             r.data))
    /\ UNCHANGED <<table, initialPayload, payload, attempt, inserts, calls, args,
                   owner, schema, locals>>

LinkNext ==
    \/ crm_link_contact_deal
    \/ crm_unlink_contact_deal
    \/ JunctionWriteReturns
    \/ FallbackReturns
    \/ Return

LinkSpec == Init /\ [][LinkNext]_vars

\* The same tools, and crm_get_deals_by_contact, on a store that holds the
\* associations.  At first deal_contacts, if it exists, is empty, and
\* contact_person_id of a deal is what crm_update_deal_generic has set.
AssocInit ==
    /\ Idle
    /\ schema = AnyStore
    /\ db \in [exists : BOOLEAN, junction : {<<>>},
                direct : [DealIds -> ContactIds \cup {Null}]]

AssocNext ==
    \/ crm_link_contact_deal
    \/ crm_unlink_contact_deal
    \/ JunctionWriteReturns
    \/ FallbackReturns
    \/ crm_get_deals_by_contact
    \/ DirectReturns
    \/ JunctionReturns
    \/ Return

AssocSpec == AssocInit /\ [][AssocNext]_vars

(***************************************************************************)
(* The update tools with fixed fields                                      *)
(***************************************************************************)
\* stage_id: z.string().uuid().optional()
StageIds == {Undefined, "s1"}
\* status: z.string().optional()
Statuses == {Undefined, "", "open"}
\* amount: z.number().optional(); "0" is the number 0
Amounts == {Undefined, "0"}
\* status: z.enum(["cancelled", "lost", "closed_lost"]).optional()
CancelStatuses == {Undefined, "lost"}
\* reason: z.string().optional()
Reasons == {Undefined, "", "budget"}

\* if (stage_id) patch.stage_id = stage_id; if (status) patch.status = status;
\* if (amount !== undefined) patch.amount = amount;
DealPatch(stage_id, status, amount) ==
    [k \in {key \in {"stage_id", "status", "amount"} :
                CASE key = "stage_id" -> Truthy(stage_id)
                  [] key = "status" -> Truthy(status)
                  [] key = "amount" -> amount # Undefined} |->
        CASE k = "stage_id" -> stage_id
          [] k = "status" -> status
          [] k = "amount" -> amount]

\* An update tool that builds its patch from its own arguments: the handler
\* up to its await.
IssueUpdate(tool, e, id, patch) ==
    /\ pc = "idle"
    /\ pc' = "update"
    /\ args' = [tool |-> tool, entity_type |-> e, entity_id |-> id]
    /\ payload' = patch
    /\ table' = EntityTable(e)
    /\ calls' = 1
    /\ UNCHANGED <<initialPayload, attempt, inserts, last, result, owner, schema, db,
                   locals>>

crm_update_deal ==
    \E deal_id \in EntityIds, stage_id \in StageIds, status \in Statuses,
       amount \in Amounts :
        IssueUpdate("crm_update_deal", "deal", deal_id,
                    DealPatch(stage_id, status, amount))

crm_update_lead_status ==
    \E lead_id \in EntityIds, status \in Statuses \ {Undefined, ""} :
        IssueUpdate("crm_update_lead_status", "lead", lead_id, [status |-> status])

\* const updateData = { status }; if (reason) updateData.notes = reason;
crm_cancel_deal ==
    \E deal_id \in EntityIds, status \in CancelStatuses, reason \in Reasons :
        LET updateData == [status |-> IF status = Undefined THEN "cancelled"
                                      ELSE status]
        IN  IssueUpdate("crm_cancel_deal", "deal", deal_id,
                        IF Truthy(reason) THEN Spread(updateData, "notes", reason)
                        ELSE updateData)

UpdateNext ==
    \/ crm_update_contact
    \/ crm_update_company
    \/ crm_update_lead
    \/ crm_update_deal_generic
    \/ crm_update_deal
    \/ crm_update_lead_status
    \/ crm_cancel_deal
    \/ UpdateReturns
    \/ Return

UpdateSpec == Init /\ [][UpdateNext]_vars

(***************************************************************************)
(* Properties of the adaptive inserter                                     *)
(***************************************************************************)
\* The text names the table.
NamesTable(text, rel) == \E i \in 1..Len(text) : text[i] = rel

\* The text holds the raw message.
Carries(text, raw) ==
    \E i \in 0..(Len(text) - Len(raw)) : SubSeq(text, i + 1, i + Len(raw)) = raw

\* C1: one invocation of smartInsertNote issues at most 8 insert calls,
\* whatever the store answers.
C1_AtMostEightInserts == inserts <= 8

\* The inserter has given up after its eighth insert failed.
C1_EightInsertsIssued ==
    pc = "done" /\ inserts = 8 /\ result = Threw(InsertExhausted(table))

\* The example of C2: a deal note whose payload is the one of the claim, on a
\* store whose table lacks company_id, author, type and activity_date.
C2_ExamplePayload ==
    /\ args.tool = "note"
    /\ pc \in {"insert", "done"}
    /\ initialPayload = [deal_id |-> "e1", body |-> "hi", author |-> "mcp",
                         type |-> "note", activity_date |-> "2024-01-01",
                         company_id |-> "c1"]

C2_TableOfTheClaim == {"company_id", "author", "type", "activity_date"}

\* C2 as stated: on that store the inserter succeeds after at most 4
\* recoverable-error cycles with a payload holding deal_id, created_by "mcp",
\* created_at "2024-01-01" and content "hi".
C2_AsStated ==
    (C2_ExamplePayload /\ schema = C2_TableOfTheClaim /\ pc = "done") =>
        /\ result.status = "returned"
        /\ attempt <= 4
        /\ {"deal_id", "created_by", "created_at", "content"} \subseteq Keys(payload)
        /\ payload["created_by"] = "mcp"
        /\ payload["created_at"] = "2024-01-01"
        /\ payload["content"] = "hi"

\* C2 amended: on that store the inserter succeeds after 4 cycles with the
\* payload {deal_id, body "hi", created_by "mcp", created_at "2024-01-01"}:
\* body is kept.  content "hi" replaces body only when the table lacks body
\* too, and then after 5 cycles.
C2_ConvergesKeepingBody ==
    /\ (C2_ExamplePayload /\ schema = C2_TableOfTheClaim /\ pc = "done") =>
        /\ result.status = "returned"
        /\ attempt = 4
        /\ payload = [deal_id |-> "e1", body |-> "hi", created_by |-> "mcp",
                      created_at |-> "2024-01-01"]
        /\ result.value.result = <<payload>>
    /\ (C2_ExamplePayload /\ schema = C2_TableOfTheClaim \cup {"body"} /\ pc = "done") =>
        /\ result.status = "returned"
        /\ attempt = 5
        /\ payload = [deal_id |-> "e1", content |-> "hi", created_by |-> "mcp",
                      created_at |-> "2024-01-01"]

\* The example has run to its end on the table of the claim.
C2_ExampleConverged ==
    /\ C2_ExamplePayload /\ schema = C2_TableOfTheClaim /\ pc = "done"
    /\ result.status = "returned"

\* An insert has just failed with a not-null violation on company_id.
C3_NotNullOnOwner(r) ==
    /\ r.op = "insert" /\ r.error # NoError
    /\ NullValueViolates(r.error.message, "company_id")

C3_Terminal ==
    /\ pc' = "done"
    /\ result' = Threw(RequiresCompanyId(table))
    /\ payload' = payload
    /\ inserts' = inserts

C4_Outcomes ==
    {i \in 1..4 :
        CASE i = 1 -> /\ result.status = "returned"
                      /\ last.error = NoError
                      /\ result.value.result = last.data
          [] i = 2 -> result = Threw(RequiresCompanyId(table))
          [] i = 3 -> /\ last.error # NoError
                      /\ result = Threw(friendlySupabaseError(table, last.error))
          [] i = 4 -> /\ result = Threw(InsertExhausted(table))
                      /\ NamesTable(result.message, table)
                      /\ inserts = 8
                      /\ last.error # NoError}

C4_InserterDone == pc = "done" /\ args.tool = "note" /\ last.op = "insert"

\* C4: every invocation of the inserter ends, and ends in exactly one of:
\* the persisted row, the required-relationship failure, a failure of the
\* classifier, or, after 8 failed inserts, the exhausted failure naming the
\* table.
C4_EndsInOneOfFourOutcomes ==
    /\ [](C4_InserterDone => Cardinality(C4_Outcomes) = 1)
    /\ ((pc = "insert") ~> (pc = "done"))

\* The inserter has ended with a failure of the classifier after a retry.
C4_ClassifiedAfterRetry ==
    /\ C4_InserterDone /\ attempt >= 1
    /\ C4_Outcomes = {3}

(***************************************************************************)
(* Properties of the sanitizer and of the update tools                     *)
(***************************************************************************)
\* C5: sanitize(U, A, B) holds k, with U's value, exactly when k is in U, in
\* A and not in B.
C5_SanitizeIsAllowedMinusBlocked ==
    pc = "sanitized" =>
        /\ Keys(payload) \subseteq SanitizeKeys
        /\ \A k \in SanitizeKeys :
            (k \in Keys(payload) /\ payload[k] = args.rawUpdates[k])
            <=> (/\ k \in Keys(args.rawUpdates)
                 /\ k \in args.allowedKeys
                 /\ k \notin args.blockedKeys)

\* A key of U is allow-listed and blocked, and another key went through.
C5_BlockedAndAllowedKey ==
    /\ pc = "sanitized"
    /\ "id" \in Keys(args.rawUpdates) \cap args.allowedKeys \cap args.blockedKeys
    /\ Keys(payload) = {"notes"}

AllowedOf(e) ==
    CASE e = "contact" -> AllowedContact
      [] e = "company" -> AllowedCompany
      [] e = "lead" -> AllowedLead
      [] e = "deal" -> AllowedDeal

C6_NothingToChange ==
    /\ args.tool = "update"
    /\ \A k \in Keys(args.updates) :
          k \in {"id", "created_at"} \/ k \notin AllowedOf(args.entity_type)

\* C6: a generic update tool given only blocked or non-allow-listed keys
\* issues no storage call and returns the envelope saying nothing was updated.
C6_EmptyPatchIssuesNoCall ==
    C6_NothingToChange =>
        /\ pc = "done"
        /\ calls = 0
        /\ last = NoResponse
        /\ result = Returned(ok(<<"No valid fields to update.">>, NoJson))

\* The lead tool was given id, notes and password: none may be changed.
C6_OnlyRefusedKeys ==
    /\ C6_NothingToChange
    /\ args.entity_type = "lead"
    /\ Keys(args.updates) = {"id", "notes", "password"}
    /\ pc = "done"

(***************************************************************************)
(* Properties of the owner resolver and of the classifier                  *)
(***************************************************************************)
C7_UnknownOwnerColumn ==
    /\ last.op = "lookup" /\ last.error # NoError
    /\ ColumnDoesNotExist(last.error.message, "company_id")

C7_NoRow == last.op = "lookup" /\ last.error = NoError /\ last.data = <<>>

C7_NullOwner ==
    /\ last.op = "lookup" /\ last.error = NoError /\ last.data # <<>>
    /\ Get(last.data[1], "company_id") = Null

\* C7: getCompanyIdFrom returns null and throws nothing when the lookup fails
\* on an unknown company_id column, when no row matches, and when the row's
\* company_id is null.
C7_ResolverReturnsNull ==
    (C7_UnknownOwnerColumn \/ C7_NoRow \/ C7_NullOwner) =>
        /\ owner = Null
        /\ result.status # "threw"
        /\ pc = "insert"

\* The lookup failed on the unknown column and the note is being inserted.
C7_UnknownColumnTolerated ==
    C7_UnknownOwnerColumn /\ owner = Null /\ pc = "insert" /\ inserts = 1

C8_LookupFailed ==
    /\ last.op = "lookup" /\ last.error # NoError
    /\ ~ColumnDoesNotExist(last.error.message, "company_id")

\* C8 as stated: any other lookup failure is the failure the classifier
\* raises for that table and error.
C8_AsStated ==
    C8_LookupFailed =>
        /\ pc = "done"
        /\ result = Threw(friendlySupabaseError(last.table, last.error))

\* C8 amended: any other lookup failure is fatal with the text
\* "<table> lookup failed: <raw message>", whatever the message matches; the
\* classifier is not used and no insert is issued.
C8_LookupFailureNamesTableAndRaw ==
    C8_LookupFailed =>
        /\ pc = "done"
        /\ result = Threw(<<last.table, " lookup failed: ">> \o last.error.message)
        /\ inserts = 0
        /\ table = last.table

\* The lookup was refused by row-level security.
C8_LookupDenied ==
    /\ C8_LookupFailed
    /\ Test1(last.error.message, "row-level security")
    /\ result.status = "threw"

\* The classifier was called: an update failed, or an insert failed with a
\* message no rule of the inserter matches.
C9_Classified ==
    /\ last.error # NoError
    /\ \/ last.op = "update"
       \/ /\ last.op = "insert"
          /\ ~Test1(last.error.message, "does not exist")
          /\ ~NullValueViolates(last.error.message, "company_id")

C9_PermissionDenied(text, rel) ==
    /\ text[1] = "Write blocked by Row Level Security on "
    /\ NamesTable(text, rel)

C9_ConstraintViolation(text, rel, raw) ==
    /\ text[1] = "Foreign key error writing to "
    /\ NamesTable(text, rel)
    /\ Carries(text, raw)

\* C9: the classifier always throws: the permission failure naming the table
\* on a row-level-security message, else the constraint failure naming the
\* table and carrying the raw message on a foreign-key message, else the raw
\* message.
C9_ClassifierThrowsByPrecedence ==
    C9_Classified =>
        /\ pc = "done"
        /\ result.status = "threw"
        /\ Len(result.message) > 0
        /\ LET raw == last.error.message
               text == result.message
           IN  IF Test1(raw, "row-level security")
               THEN C9_PermissionDenied(text, last.table)
               ELSE IF Test1(raw, "violates foreign key constraint")
               THEN C9_ConstraintViolation(text, last.table, raw)
               ELSE /\ Carries(text, raw)
                    /\ raw # <<>> => text = raw
                    /\ ~C9_PermissionDenied(text, last.table)
                    /\ text[1] # "Foreign key error writing to "

\* The message matches both patterns and the permission failure was thrown.
C9_BothPatternsMatch ==
    /\ C9_Classified
    /\ Test1(last.error.message, "row-level security")
    /\ Test1(last.error.message, "violates foreign key constraint")
    /\ C9_PermissionDenied(result.message, last.table)

C10_WriteToolFailed ==
    pc = "done" /\ args.tool \in {"note", "update"} /\ result.status = "threw"

\* C10 as stated: every failure a write tool propagates names the table whose
\* storage operation failed.
C10_AsStated == C10_WriteToolFailed => NamesTable(result.message, table)

\* The classifier took its last branch: the failure is the raw message.
C10_GenericFailure ==
    /\ last.error # NoError
    /\ ~Test1(last.error.message, "row-level security")
    /\ ~Test1(last.error.message, "violates foreign key constraint")
    /\ result.message = IF last.error.message = <<>> THEN <<"[object Object]">>
                        ELSE last.error.message

\* C10 amended: every failure a write tool propagates names the table,
\* except the generic failure of the classifier, which is the store's raw
\* message and nothing else.
C10_FailureNamesTableUnlessGeneric ==
    (C10_WriteToolFailed /\ ~C10_GenericFailure) => NamesTable(result.message, table)

\* An update was refused by row-level security and the failure names the table.
C10_DeniedUpdateNamesTable ==
    /\ C10_WriteToolFailed
    /\ last.op = "update"
    /\ result.message[1] = "Write blocked by Row Level Security on "
    /\ NamesTable(result.message, table)

(***************************************************************************)
(* Properties of the read tools                                            *)
(***************************************************************************)
MergingTools == {"crm_get_deals_by_contact", "crm_list_contact_deals"}

\* A merging tool has merged the direct rows D with the junction rows J.
C11_Merged ==
    /\ pc = "done" /\ args.tool \in MergingTools
    /\ result.status = "returned"
    /\ last.table = "deal_contacts" /\ last.error = NoError

C11_JunctionDeals ==
    {last.data[i].deals[1] : i \in {j \in 1..Len(last.data) : last.data[j].deals # <<>>}}

\* C11 as stated: the merged result holds every deal id of D or J exactly
\* once, and for an id of both it holds the row of D.
C11_AsStated ==
    C11_Merged =>
        LET D == locals.directDeals
            merged == result.value.result
            ids == {D[i].id : i \in 1..Len(D)} \cup {d.id : d \in C11_JunctionDeals}
        IN  /\ \A id \in ids :
                Cardinality({i \in 1..Len(merged) : merged[i].id = id}) = 1
            /\ \A i \in 1..Len(D) : \E j \in 1..Len(merged) : merged[j] = D[i]

DefaultLimitOf(tool) == IF tool \in MergingTools THEN 50 ELSE 10

\* C12 as stated: a tool given a limit in [1,100], or none, returns at most
\* that many rows (10 or 50 when none is given); a limit outside [1,100] is
\* refused before any storage call.
C12_AsStated ==
    (pc = "done" /\ "limit" \in DOMAIN args
     /\ args.tool # "crm_get_contact_deal_associations") =>
        IF ValidLimit(args.limit)
        THEN result.status = "returned" =>
                Len(result.value.result)
                    <= DefaultLimit(args.limit, DefaultLimitOf(args.tool))
        ELSE result = InvalidArguments /\ calls = 0 /\ last = NoResponse

\* The failed storage calls of the running invocation of a read tool.
C13_Failures ==
    {e \in {last.error}
           \cup (IF "directError" \in DOMAIN locals THEN {locals.directError} ELSE {})
           \cup (IF "error" \in DOMAIN locals THEN {locals.error} ELSE {}) :
        e # NoError}

\* A failure a read tool may pass over: a message naming a column, the
\* missing junction relation, and the shape failure crm_search_deals answers
\* with a simpler select.
C13_Tolerated(e) ==
    \/ Test1(e.message, "column")
    \/ RelationDoesNotExist(e.message, "deal_contacts")
    \/ args.tool = "crm_search_deals" /\ Test1(e.message, "relation")

\* C13 as stated: a read tool returns a success envelope only if every
\* storage call of the invocation succeeded or failed with a tolerated error.
C13_AsStated ==
    (pc = "done" /\ "limit" \in DOMAIN args /\ result.status = "returned") =>
        \A e \in C13_Failures : C13_Tolerated(e)

(***************************************************************************)
(* Properties of the link tools                                            *)
(***************************************************************************)
\* The store said that the junction relation does not exist.
C14_JunctionMissing(error) ==
    error # NoError /\ error.message = <<"relation", "deal_contacts", "does not exist">>

C14_LinkTool == args.tool \in {"crm_link_contact_deal", "crm_unlink_contact_deal"}

C14_FellBack == C14_LinkTool /\ (pc = "fallback" \/ last.table = "deals")

C14_SummaryOf(how) ==
    IF args.tool = "crm_link_contact_deal"
    THEN Linked(args.contact_id, args.deal_id, how)
    ELSE Unlinked(args.contact_id, args.deal_id, how)

\* C14 as stated: the link and unlink tools write to deal_contacts first;
\* they fall back to one update of deals.contact_person_id (the contact on
\* link, null on unlink) only when that write failed because the junction
\* relation does not exist, and then say so in the summary; any other
\* junction failure is classified and no fallback write is issued.
C14_AsStated ==
    /\ (C14_LinkTool /\ pc = "junction_write") => (calls = 1 /\ table = "deal_contacts")
    /\ C14_FellBack =>
        /\ C14_JunctionMissing(locals.error)
        /\ calls = 2
        /\ payload = [contact_person_id |->
                         IF args.tool = "crm_link_contact_deal"
                         THEN args.contact_id ELSE Null]
        /\ result.status = "returned" =>
              /\ result.value.summary # C14_SummaryOf(".")
              /\ result.value.summary[5] # "."
    /\ (C14_LinkTool /\ pc = "done" /\ last.table = "deal_contacts") =>
        /\ calls = 1
        /\ IF last.error = NoError
           THEN result.status = "returned" /\ result.value.summary = C14_SummaryOf(".")
           ELSE /\ ~C14_JunctionMissing(last.error)
                /\ result = Threw(friendlySupabaseError("deal_contacts", last.error))

(***************************************************************************)
(* Properties of the note tools                                            *)
(***************************************************************************)
C15_OwnedNote == args.tool = "note" /\ args.entity_type # "company"
C15_CompanyNote == args.tool = "note" /\ args.entity_type = "company"

\* What C15 says of the order of the calls: the lookup has answered before
\* the first insert, a lookup that fails fatally is followed by no insert,
\* and a company note issues no lookup.
C15_LookupThenInsert ==
    /\ (C15_OwnedNote /\ pc = "lookup") => (calls = 1 /\ inserts = 0)
    /\ (C15_OwnedNote /\ inserts >= 1) => (owner # Undefined /\ calls = inserts + 1)
    /\ (C15_OwnedNote /\ last.op = "lookup" /\ result.status = "threw") =>
          (pc = "done" /\ inserts = 0 /\ calls = 1)
    /\ C15_CompanyNote =>
          (owner = Undefined /\ last.op # "lookup" /\ calls = inserts /\ inserts >= 1)

\* C15 as stated: the order above, and the initial payload of a contact,
\* deal or lead note holds company_id exactly when the lookup returned a
\* non-null owner.
C15_AsStated ==
    /\ C15_LookupThenInsert
    /\ (C15_OwnedNote /\ inserts >= 1) =>
          ("company_id" \in Keys(initialPayload) <=> owner # Null)

\* C15 amended: the order above, and the initial payload holds company_id,
\* with the owner's value, exactly when the lookup returned an owner that is
\* neither null nor the empty string.
C15_OwnerInPayloadWhenTruthy ==
    /\ C15_LookupThenInsert
    /\ (C15_OwnedNote /\ inserts >= 1) =>
          /\ "company_id" \in Keys(initialPayload) <=> owner \notin {Null, ""}
          /\ "company_id" \in Keys(initialPayload) => initialPayload["company_id"] = owner

\* The lookup of a deal returned the empty string, and the first insert of
\* the note is out without company_id.
C15_EmptyOwnerLeftOut ==
    /\ C15_OwnedNote /\ pc = "insert" /\ inserts = 1 /\ calls = 2
    /\ owner = ""
    /\ "company_id" \notin Keys(initialPayload)

(***************************************************************************)
(* Properties of the rules of the adaptive inserter                        *)
(***************************************************************************)
\* A step of the inserter: an insert was awaited and has failed.
C16_InsertFailed == pc = "insert" /\ last'.op = "insert" /\ last'.error # NoError

\* A rule fired and the next insert is out.
C16_Retried == C16_InsertFailed /\ pc' = "insert"

\* C16 as stated: a rule fires only on a field of the current payload, so
\* the payload of the next insert differs from the payload of the last one.
C16_AsStated ==
    [][C16_Retried =>
          /\ \E c \in Keys(payload) \cap NoteColumns :
                ColumnDoesNotExist(last'.error.message, c)
          /\ payload' # payload]_vars

C17_BothOwnerPatterns(error) ==
    /\ error # NoError
    /\ NullValueViolates(error.message, "company_id")
    /\ ColumnDoesNotExist(error.message, "company_id")

C18_AsStated ==
    [][/\ C16_Retried =>
            /\ Cardinality(Keys(payload) \ Keys(payload')) = 1
            /\ Cardinality(Keys(payload') \ Keys(payload)) <= 1
            /\ \A k \in Keys(payload) \cap Keys(payload') : payload'[k] = payload[k]
            /\ Cardinality(Keys(payload')) <= Cardinality(Keys(initialPayload))
       /\ (pc = "insert" /\ last'.error = NoError) =>
            /\ payload' = payload
            /\ result'.status = "returned"
            /\ result'.value.result = <<payload>>]_vars

\* The step renamed `old` to `new`.
C19_Renamed(old, new) ==
    /\ C16_InsertFailed
    /\ old \in Keys(payload) /\ old \notin Keys(payload')
    /\ new \notin Keys(payload) /\ new \in Keys(payload')

\* C19 as stated: a rename gives the new key the value the old key held.
C19_AsStated ==
    [][\A rename \in {<<"author", "created_by">>, <<"activity_date", "created_at">>,
                      <<"body", "content">>} :
          C19_Renamed(rename[1], rename[2]) =>
              payload'[rename[2]] = payload[rename[1]]]_vars

\* The message names a note column as unknown.
C20_UnknownNoteColumn(error) ==
    error # NoError /\ \E c \in NoteColumns : ColumnDoesNotExist(error.message, c)

C20_Consumable(error, p) ==
    \/ ColumnDoesNotExist(error.message, "company_id")
    \/ /\ ~NullValueViolates(error.message, "company_id")
       /\ \E c \in (Keys(p) \cap NoteColumns) \ {"company_id"} :
             ColumnDoesNotExist(error.message, c)

C21_InserterEnded == pc = "done" /\ args.tool = "note" /\ last.op = "insert"

\* The payload the rules lead to on this store: the initial payload without
\* the columns the table lacks, after the renames the table allows.  The
\* field linking a deal note to its deal is no note column, so the store
\* accepts this payload.
C21_AcceptedPayloadExists ==
    args.entity_type = "deal" /\ IdField("deal") \notin schema

\* C21 as stated: whenever the store would accept some payload the rules
\* reach, the inserter submits it and succeeds, also when all eight
\* transformations are needed.
C21_AsStated ==
    (C21_InserterEnded /\ C21_AcceptedPayloadExists) =>
        /\ result.status = "returned"
        /\ Keys(payload) \cap schema = {}
        /\ result.value.result = <<payload>>

\* The link field of a note of the running invocation.
C22_LinkField == IdField(args.entity_type)

\* C22 as stated: every payload a note tool submits, and every row it
\* persists, holds the field linking the note to its entity, with the
\* entity id the caller gave.
C22_AsStated ==
    (args.tool = "note" /\ (pc = "insert" \/ result.status = "returned")) =>
        /\ C22_LinkField \in Keys(payload)
        /\ payload[C22_LinkField] = args.entity_id

(***************************************************************************)
(* Properties of the update tools                                          *)
(***************************************************************************)
\* C25 as stated: every update an update tool issues carries at least one
\* field to change; an invocation with nothing to change issues no storage
\* write.
C25_AsStated ==
    /\ (pc = "update" \/ last.op = "update") => Keys(payload) # {}
    /\ (pc # "idle" /\ Keys(payload) = {}) => (calls = 0 /\ last = NoResponse)

(***************************************************************************)
(* Properties of the association tools on a store holding associations     *)
(***************************************************************************)
\* The ids of the deals crm_get_deals_by_contact(contact) returns on the
\* store `store`, called without a limit.
DealsByContact(store, contact) ==
    LET res == DealsByContactResult(DirectSelect(store, contact, 50).data,
                                    JunctionSelect(store, contact, 50))
    IN  IF res.status = "returned"
        THEN {res.value.result[i].id : i \in 1..Len(res.value.result)}
        ELSE {}

\* This step ends an invocation of `tool` with a success envelope.
C23_Succeeds(tool) ==
    /\ args.tool = tool
    /\ pc # "done" /\ pc' = "done"
    /\ result'.status = "returned"

\* C23 as stated: once crm_unlink_contact_deal(contact, deal) has returned
\* a success envelope, crm_get_deals_by_contact(contact) does not return
\* the deal, wherever the association was held: in deal_contacts, in
\* contact_person_id of the deal, or in both.
C23_AsStated ==
    [][C23_Succeeds("crm_unlink_contact_deal") =>
          args.deal_id \notin DealsByContact(db', args.contact_id)]_vars

\* C24 as stated: a successful crm_link_contact_deal(B, deal) takes no deal
\* from what crm_get_deals_by_contact(A) returns for another contact A, in
\* the junction strategy and in the fallback on contact_person_id.
C24_AsStated ==
    [][C23_Succeeds("crm_link_contact_deal") =>
          \A A \in ContactIds \ {args.contact_id} :
              DealsByContact(db, A) \subseteq DealsByContact(db', A)]_vars

=============================================================================
